---- MODULE Spec2Model ----
(***************************************************************************)
(* Heat-Logger prediction engine: the v2 Gaussian-kNN predictor            *)
(* (PredictionServiceV2.Predict) and the v1 hybrid user/global predictor    *)
(* (PredictionService.PredictHeatingTime), over an append-only observation  *)
(* store.  Records are stamped with the time of the call; deleting records  *)
(* and records dated by the caller are left out.                            *)
(*                                                                          *)
(* Arithmetic.  The Go code computes in float64.  Here                      *)
(*   - heating times of records, and responses, are whole minutes;          *)
(*   - estimates inside the predictors are hundredths of a minute (Centi);  *)
(*   - factors and v1 weights are thousandths (Milli);                      *)
(*   - math.Exp and math.Sqrt are tables of their values on the model's     *)
(*     arguments, in thousandths;                                           *)
(*   - the clock counts periods of RecencyHalfLifeDays days, so that the    *)
(*     v2 recency weight exp(-ln2*days/halfLife) is the exact power of two  *)
(*     2^-(periods), kept as the integer 2^(MaxNow - periods).              *)
(* Every product is brought back to its scale right after it is taken, in   *)
(* the order the code multiplies, rounding to the nearest unit (a // b).    *)
(* A value of the model can differ from the float64 value in its last unit, *)
(* so a response can differ by a minute where the estimate sits on a        *)
(* rounding boundary.                                                       *)
(***************************************************************************)
EXTENDS Integers, Sequences, FiniteSets

VARIABLES store, now, version, last, reply

vars == <<store, now, version, last, reply>>

(***************************************************************************)
(* Bounds of the model.                                                     *)
(***************************************************************************)
MaxRecs == 2
MaxNow == 2
MaxScenarioRecs == 3
MaxStuckRecs == 4
MaxApiRecs == 2
MaxWeightRecs == 11
ExperiencedRecs == 9
MaxExperiencedRecs == 11
MaxTargetRecs == 2
MaxWindowRecs == 5
MaxBlendRecs == 5
MaxDecayRecs == 4

Centi == 10 * 10
Milli == 10 * 10 * 10

None == [none |-> TRUE]

Abs(x) == IF x < 0 THEN -x ELSE x
Min(a, b) == IF a < b THEN a ELSE b
Max(a, b) == IF a > b THEN a ELSE b

(* a / b for b > 0, rounded to the nearest integer *)
a // b == IF a >= 0 THEN (a + b \div 2) \div b ELSE -((-a + b \div 2) \div b)

(***************************************************************************)
(* math.Floor, math.Ceil, math.Round (half away from zero) of a value in   *)
(* hundredths, as whole minutes.  Estimates are never negative when they    *)
(* are rounded, except the v1 value, for which Round handles the sign.      *)
(***************************************************************************)
Floor(c) == IF c >= 0 THEN c \div Centi ELSE -((-c + Centi - 1) \div Centi)
Ceil(c) == -Floor(-c)
Round(c) == IF c >= 0 THEN (c + Centi \div 2) \div Centi
                      ELSE -((-c + Centi \div 2) \div Centi)

(***************************************************************************)
(* math.Exp(-0.5*(delta/sigma)^2) for the three sigmas the code uses,       *)
(* delta = 0, 1, 2, ...; in 1/Milli.                                        *)
(***************************************************************************)
GaussTable ==
  [sigma \in {3, 4, 22} |->
     CASE sigma = 4 -> <<1000, 969, 882, 755, 607, 458, 325, 216, 135, 80,
                         44, 23, 11>>
       [] sigma = 3 -> <<1000, 946, 801, 607, 411, 249, 135, 66, 29, 11>>
       [] sigma = 22 -> <<1000, 999, 996, 991, 984, 975, 963, 951, 936,
                          920, 902, 882, 862, 840, 817, 793, 768, 742, 716,
                          689, 662, 634, 607, 579, 552, 524, 497, 471, 445,
                          419, 395, 371, 347, 325, 303, 282, 262, 243, 225,
                          208, 191, 176, 162, 148, 135, 123, 112, 102, 93,
                          84, 76>>]

(* 1/math.Sqrt(cnt), cnt = 1, 2, ...; in 1/Milli. *)
InvSqrtTable == <<1000, 707, 577, 500, 447, 408, 378, 354, 333, 316, 302,
                  289, 277>>

(* math.Exp(-0.023*days) and math.Exp(-0.1*days), days = 0, 5, 10, ...; in 1/Milli. *)
ExpDecay023 == <<1000, 891, 795, 708, 631, 563, 502, 447, 399>>
ExpDecay01 == <<1000, 607, 368, 223, 135, 82, 50, 30, 18>>

(***************************************************************************)
(* PredictionConfigV2 as NewPredictionServiceV2(recordService, nil) leaves *)
(* it.  AnchorEpsilon and AnchorBoost are not set by the defaults literal,  *)
(* so they keep Go's zero value.                                            *)
(***************************************************************************)
SigmaDuration == 4
SigmaTemp == 3
K == 25
MinK == 6
AnchorEpsilon == 0
AnchorBoostMilli == 0
AnchorBlendMilli == 350
RecencyHalfLifeDays == 5
UserBoost == 2
StepCapFractionCenti == 35
MinMinutes == 5
MaxMinutes == 120
NeverCold == FALSE
ReliabilitySigma == 22
UserLimitV2 == 400
GlobalLimitV2 == 1200
UserLimitV1 == 50
GlobalLimitV1 == 200

DefaultMinutesV2 == 30

(***************************************************************************)
(* The observation store.  store is in insertion order, which is date       *)
(* order: CreateRecord stamps a record with the current time.               *)
(***************************************************************************)
Reverse(s) == [i \in 1..Len(s) |-> s[Len(s) + 1 - i]]
Take(s, n) == SubSeq(s, 1, Min(n, Len(s)))

RECURSIVE Filter(_, _, _)
Filter(s, userID, keepOwn) ==
  IF s = <<>> THEN <<>>
  ELSE IF (Head(s).UserID = userID) = keepOwn
       THEN <<Head(s)>> \o Filter(Tail(s), userID, keepOwn)
       ELSE Filter(Tail(s), userID, keepOwn)

(* WHERE user_id = ? ORDER BY date DESC LIMIT limit *)
GetRecordsForPredictionByUser(st, userID, limit) ==
  Take(Filter(Reverse(st), userID, TRUE), limit)

(* WHERE user_id != ? ORDER BY date DESC LIMIT limit *)
GetGlobalRecordsForPrediction(st, excludeUserID, limit) ==
  Take(Filter(Reverse(st), excludeUserID, FALSE), limit)

(* Days between the call and the record: now.Sub(r.Date).Hours() / 24 *)
DaysSince(t, r) == (t - r.Date) * RecencyHalfLifeDays

(***************************************************************************)
(* a.Date.After(b.Date).  Date is the period the record was created in and  *)
(* Ord its rank among the records, which stands for the rest of the         *)
(* timestamp: no two records are created at the same instant.               *)
(***************************************************************************)
After(a, b) == a.Ord > b.Ord

(***************************************************************************)
(* ------------------------- Prediction v2 ------------------------------- *)
(***************************************************************************)

(* gaussian(delta, sigma), in 1/Milli *)
gaussian(delta, sigma) ==
  IF sigma <= 0 THEN 0 ELSE GaussTable[sigma][Abs(delta) + 1]

(* expHalfLife(days, halfLife), in units of 2^-MaxNow *)
expHalfLife(days, halfLife) ==
  IF halfLife <= 0 THEN 2 ^ MaxNow ELSE 2 ^ (MaxNow - days \div halfLife)

clamp(x, lo, hi) == IF x < lo THEN lo ELSE IF x > hi THEN hi ELSE x

(* freqCellKey: the record's (rounded duration, rounded temperature) cell *)
freqCellKey(r) == <<r.ShowerDuration, r.AverageTemperature>>

(* cellCounts[key]: how many of the fetched records fall in the cell *)
cellCount(recs, key) ==
  Cardinality({i \in 1..Len(recs) : freqCellKey(recs[i]) = key})

isAnchor(r) == Abs(r.Satisfaction - 50) <= AnchorEpsilon

(***************************************************************************)
(* Step 4 of Predict: the weight of one record, in units of                *)
(* 2^-MaxNow / Milli.                                                       *)
(***************************************************************************)
weightV2(req, t, r, isUser, cnt) ==
  LET wDur == gaussian(req.Duration - r.ShowerDuration, SigmaDuration)
      wTmp == gaussian(req.Temperature - r.AverageTemperature, SigmaTemp)
      w0 == (wDur * wTmp) // Milli
      days == Abs(DaysSince(t, r))
      w1 == w0 * expHalfLife(days, RecencyHalfLifeDays)
      w2 == IF isAnchor(r) THEN (w1 * AnchorBoostMilli) // Milli ELSE w1
      w3 == (w2 * gaussian(r.Satisfaction - 50, ReliabilitySigma)) // Milli
      w4 == IF cnt > 1 THEN (w3 * InvSqrtTable[cnt]) // Milli ELSE w3
  IN IF isUser THEN w4 * UserBoost ELSE w4

(* impliedTarget as it would be if the satisfaction were ignored *)
impliedTargetUncorrected(r) == r.HeatingTime * Centi

(* impliedTarget as it would be with a correction linear in the            *)
(* satisfaction and no deadband                                            *)
impliedTargetLinear(r) == r.HeatingTime * Centi + r.HeatingTime * (50 - r.Satisfaction)

(***************************************************************************)
(* impliedTarget, in hundredths of a minute.                                *)
(***************************************************************************)
impliedTarget(r) ==
  LET s == r.Satisfaction
      h == r.HeatingTime
      coldSeverity == Max(0, ((50 - s) * Milli) // 50)
      (* basePercent in 1/(100*Milli), overshoot in 1/Milli *)
      basePercent == 12 * Milli + 28 * coldSeverity
      overshoot == Milli + coldSeverity // 10
      (* factor - 1, in 1/(Milli*Milli) *)
      extra == (basePercent * overshoot) // Centi
  IN IF Abs(s - 50) <= 1 THEN h * Centi
     ELSE IF s > 50
          THEN CASE s >= 85 -> h * 75
                 [] s >= 80 /\ s < 85 -> h * 80
                 [] s >= 75 /\ s < 80 -> h * 83
                 [] s >= 65 /\ s < 75 -> h * 87
                 [] s >= 60 /\ s < 65 -> h * 92
                 [] s >= 55 /\ s < 60 -> h * 97
                 [] OTHER -> h * 99
          ELSE h * Centi + (h * extra) // (Centi * Centi)

(* The fetched records with their source flag, weight and anchor mark. *)
wrapAll(req, t, userRecords, globalRecords) ==
  LET recs == userRecords \o globalRecords
  IN [i \in 1..Len(recs) |->
        [rec |-> recs[i],
         isUser |-> i <= Len(userRecords),
         anchor |-> isAnchor(recs[i]),
         weight |-> weightV2(req, t, recs[i], i <= Len(userRecords),
                             cellCount(recs, freqCellKey(recs[i])))]]

(***************************************************************************)
(* Step 5: sort.Slice by weight, descending, and keep the first k.  The    *)
(* order among equal weights is whatever sort.Slice leaves; here the first  *)
(* of the heaviest is taken first.                                          *)
(***************************************************************************)
RECURSIVE sortByWeight(_)
sortByWeight(ws) ==
  IF ws = <<>> THEN <<>>
  ELSE LET best == CHOOSE i \in 1..Len(ws) :
                     /\ \A j \in 1..Len(ws) : ws[j].weight <= ws[i].weight
                     /\ \A j \in 1..(i - 1) : ws[j].weight < ws[i].weight
           rest == [j \in 1..(Len(ws) - 1) |->
                      IF j < best THEN ws[j] ELSE ws[j + 1]]
       IN <<ws[best]>> \o sortByWeight(rest)

topK(ws) ==
  LET k == Min(Max(K, MinK), Len(ws))
  IN IF k = Len(ws) THEN ws ELSE SubSeq(sortByWeight(ws), 1, k)

RECURSIVE sumTargets(_, _)
sumTargets(ws, anchorsOnly) ==
  IF ws = <<>> THEN 0
  ELSE LET r == Head(ws)
       IN (IF (anchorsOnly /\ ~r.anchor) \/ r.weight <= 0 THEN 0
           ELSE impliedTarget(r.rec) * r.weight)
          + sumTargets(Tail(ws), anchorsOnly)

RECURSIVE sumPositive(_, _)
sumPositive(ws, anchorsOnly) ==
  IF ws = <<>> THEN 0
  ELSE LET r == Head(ws)
       IN (IF (anchorsOnly /\ ~r.anchor) \/ r.weight <= 0 THEN 0
           ELSE r.weight)
          + sumPositive(Tail(ws), anchorsOnly)

RECURSIVE sumWeights(_)
sumWeights(ws) ==
  IF ws = <<>> THEN 0 ELSE Head(ws).weight + sumWeights(Tail(ws))

(* weightedMeanTargets as it would be if the sum were not divided by the   *)
(* total weight                                                            *)
weightedMeanTargetsUndivided(ws) ==
  IF sumPositive(ws, FALSE) = 0 THEN DefaultMinutesV2 * Centi
  ELSE sumTargets(ws, FALSE)

(* weightedMeanTargets, in hundredths; 30.0 when no weight is positive *)
weightedMeanTargets(ws) ==
  LET totalW == sumPositive(ws, FALSE)
  IN IF totalW = 0 THEN DefaultMinutesV2 * Centi
     ELSE sumTargets(ws, FALSE) // totalW

(* weightedMeanTargetsAnchors: <<mean, weightSum>> *)
weightedMeanTargetsAnchors(ws) ==
  LET totalW == sumPositive(ws, TRUE)
  IN IF totalW = 0 THEN <<0, 0>>
     ELSE <<sumTargets(ws, TRUE) // totalW, totalW>>

(***************************************************************************)
(* latestSimilarUserRecord: the latest of the owner's records within the   *)
(* given distance of the request; None when there is none.  userRecs is     *)
(* newest first, and a later element replaces the held one only when its    *)
(* date is strictly after.                                                  *)
(***************************************************************************)
RECURSIVE latestSimilarFrom(_, _, _, _, _)
latestSimilarFrom(userRecs, req, maxDeltaDur, maxDeltaTemp, held) ==
  IF userRecs = <<>> THEN held
  ELSE LET r == Head(userRecs)
           skip == \/ Abs(r.ShowerDuration - req.Duration) > maxDeltaDur
                   \/ Abs(r.AverageTemperature - req.Temperature) > maxDeltaTemp
           take == ~skip /\ (held = None \/ After(r, held))
       IN latestSimilarFrom(Tail(userRecs), req, maxDeltaDur, maxDeltaTemp,
                            IF take THEN r ELSE held)

latestSimilarUserRecord(userRecs, req, maxDeltaDur, maxDeltaTemp) ==
  latestSimilarFrom(userRecs, req, maxDeltaDur, maxDeltaTemp, None)

(* lastUserFeedback: the satisfaction of the owner's latest record, or None *)
RECURSIVE latestFrom(_, _)
latestFrom(userRecs, held) ==
  IF userRecs = <<>> THEN held
  ELSE latestFrom(Tail(userRecs),
                  IF held = None \/ After(Head(userRecs), held)
                  THEN Head(userRecs) ELSE held)

lastUserFeedback(userRecs) ==
  LET latest == latestFrom(userRecs, None)
  IN IF latest = None THEN None ELSE [sat |-> latest.Satisfaction]

(* smartRound, from hundredths to whole minutes *)
smartRound(est, lastSat) ==
  LET frac == est - Floor(est) * Centi
  IN IF lastSat > 50 /\ frac * 4 <= Centi THEN Floor(est)
     ELSE IF lastSat < 50 THEN Ceil(est)
     ELSE Round(est)

(***************************************************************************)
(* Steps 6 to 8 of Predict, the estimate in hundredths before rounding.    *)
(***************************************************************************)
estimateV2(req, t, userRecords, globalRecords) ==
  LET top == topK(wrapAll(req, t, userRecords, globalRecords))
      estAll == weightedMeanTargets(top)
      anch == weightedMeanTargetsAnchors(top)
      alpha == (AnchorBlendMilli
                * Min(Milli, (anch[2] * Milli) // Max(1, sumWeights(top))))
               // Milli
      blended == IF anch[2] > 0
                 THEN ((Milli - alpha) * estAll + alpha * anch[1]) // Milli
                 ELSE estAll
      lastRec == latestSimilarUserRecord(userRecords, req,
                                         SigmaDuration * 2, SigmaTemp * 2)
      stepped == IF lastRec # None
                 THEN clamp(blended,
                            lastRec.HeatingTime * (Centi - StepCapFractionCenti),
                            lastRec.HeatingTime * (Centi + StepCapFractionCenti))
                 ELSE blended
  IN clamp(stepped, MinMinutes * Centi, MaxMinutes * Centi)

(***************************************************************************)
(* PredictionServiceV2.Predict: the heating time, in whole minutes.        *)
(***************************************************************************)
PredictV2(st, t, req) ==
  LET userRecords == GetRecordsForPredictionByUser(st, req.UserID, UserLimitV2)
      globalRecords == GetGlobalRecordsForPrediction(st, req.UserID, GlobalLimitV2)
      lastSat == lastUserFeedback(userRecords)
      est == estimateV2(req, t, userRecords, globalRecords)
  IN IF Len(userRecords) + Len(globalRecords) = 0
     THEN clamp(IF NeverCold THEN Ceil(DefaultMinutesV2 * Centi)
                ELSE Round(DefaultMinutesV2 * Centi),
                MinMinutes, MaxMinutes)
     ELSE IF lastSat # None THEN smartRound(est, lastSat.sat)
     ELSE Round(est)

(***************************************************************************)
(* ------------------------- Prediction v1 ------------------------------- *)
(***************************************************************************)

(* predictWithDefaults: whole minutes *)
predictWithDefaults(req) ==
  LET heatingTime == 12 * Centi + req.Duration * 40 - req.Temperature * 15
  IN Round(IF heatingTime < 5 * Centi THEN 5 * Centi ELSE heatingTime)

RECURSIVE clusterFilter(_, _)
clusterFilter(req, recs) ==
  IF recs = <<>> THEN <<>>
  ELSE LET record == Head(recs)
           isLongShower == req.Duration > 15
           isHotWeather == req.Temperature > 20
           isColdWeather == req.Temperature < 10
           match == /\ ~(isLongShower /\ record.ShowerDuration <= 15)
                    /\ ~(~isLongShower /\ record.ShowerDuration > 15)
                    /\ ~(isHotWeather /\ record.AverageTemperature <= 20)
                    /\ ~(isColdWeather /\ record.AverageTemperature >= 10)
       IN (IF match THEN <<record>> ELSE <<>>)
          \o clusterFilter(req, Tail(recs))

getClusteredGlobalRecords(req, globalRecords) ==
  LET clusteredRecords == clusterFilter(req, globalRecords)
  IN IF Len(clusteredRecords) < 10 THEN globalRecords ELSE clusteredRecords

isRelevant(req, record) ==
  /\ Abs(record.AverageTemperature - req.Temperature) <= 2
  /\ Abs(record.ShowerDuration - req.Duration) <= 3

(* calculateUserWeight, in 1/Milli *)
calculateUserWeightOfAll(req, userRecords) ==
  Min(Milli, (Len(userRecords) * Milli) // 10)

calculateUserWeight(req, userRecords) ==
  LET relevantCount ==
        Cardinality({i \in 1..Len(userRecords) : isRelevant(req, userRecords[i])})
  IN Min(Milli, (relevantCount * Milli) // 10)

(* calculateDynamicLearningRate, in 1/Milli *)
calculateDynamicLearningRate(satisfaction, recordCount) ==
  LET confidenceFactor ==
        Milli - (Min(Milli, (recordCount * Milli) // 30) * 7) // 10
      satisfactionFactor == Milli + Abs(satisfaction - 50) * 20
      learningRate == (confidenceFactor * satisfactionFactor) // Milli
  IN Max(200, Min(learningRate, 2 * Milli))

(* getRecentRecords: the last count elements of the list as it is given *)
getRecentRecords(records, count) ==
  IF Len(records) <= count THEN records
  ELSE SubSeq(records, Len(records) - count + 1, Len(records))

RECURSIVE sumHeating(_)
sumHeating(recs) ==
  IF recs = <<>> THEN 0 ELSE Head(recs).HeatingTime + sumHeating(Tail(recs))

RECURSIVE sumSatisfaction(_)
sumSatisfaction(recs) ==
  IF recs = <<>> THEN 0 ELSE Head(recs).Satisfaction + sumSatisfaction(Tail(recs))

RECURSIVE sumSquares(_, _)
sumSquares(recs, avg) ==
  IF recs = <<>> THEN 0
  ELSE (Head(recs).HeatingTime * Centi - avg) * (Head(recs).HeatingTime * Centi - avg)
       + sumSquares(Tail(recs), avg)

(* isStuckInPattern *)
isStuckInPattern(records) ==
  IF Len(records) < 4 THEN FALSE
  ELSE LET recentRecords == getRecentRecords(records, 4)
           n == Len(recentRecords)
           avgHeatingTime == (sumHeating(recentRecords) * Centi) // n
           heatingTimeVariance == sumSquares(recentRecords, avgHeatingTime) // n
           satisfactionBelowThreshold ==
             Cardinality({i \in 1..n : recentRecords[i].Satisfaction < 50})
       IN heatingTimeVariance < 4 * Centi * Centi /\ satisfactionBelowThreshold >= 3

(* handleStuckPattern, in hundredths *)
handleStuckPattern(records) ==
  LET recentRecords == getRecentRecords(records, 4)
      n == Len(recentRecords)
      avgHeatingTime == (sumHeating(recentRecords) * Centi) // n
      avgSatisfaction == (sumSatisfaction(recentRecords) * Centi) // n
  IN IF avgSatisfaction < 30 * Centi THEN (avgHeatingTime * 150) // Centi
     ELSE IF avgSatisfaction < 45 * Centi THEN (avgHeatingTime * 130) // Centi
     ELSE IF avgSatisfaction > 70 * Centi THEN (avgHeatingTime * 75) // Centi
     ELSE IF avgSatisfaction > 55 * Centi THEN (avgHeatingTime * 85) // Centi
     ELSE (avgHeatingTime * 120) // Centi

(* The similarity of one record to the request, in 1/Milli *)
overallSimilarity(req, record) ==
  LET tempDiff == Abs(record.AverageTemperature - req.Temperature)
      durationDiff == Abs(record.ShowerDuration - req.Duration)
      tempSimilarity == Milli - (tempDiff * Milli) // 2
      durationSimilarity == Milli - (durationDiff * Milli) // 3
  IN (tempSimilarity + durationSimilarity) // 2

RECURSIVE sumSimilarity(_, _)
sumSimilarity(req, recs) ==
  IF recs = <<>> THEN 0
  ELSE (IF isRelevant(req, Head(recs)) THEN overallSimilarity(req, Head(recs)) ELSE 0)
       + sumSimilarity(req, Tail(recs))

(* calculateFrequencyWeight, in 1/Milli (it does not read currentRecord) *)
calculateFrequencyWeight(req, allRecords) ==
  LET similarCount ==
        Cardinality({i \in 1..Len(allRecords) : isRelevant(req, allRecords[i])})
      countFactor == (similarCount * Milli) // Len(allRecords)
      avgSimilarity == sumSimilarity(req, allRecords) // similarCount
  IN IF similarCount > 0 THEN Milli + (countFactor * avgSimilarity) // Milli
     ELSE Milli

(* findSimilarRecords: the relevant records with their weight, in 1/Milli *)
RECURSIVE similarFrom(_, _, _, _)
similarFrom(req, t, recs, frequencyWeight) ==
  IF recs = <<>> THEN <<>>
  ELSE LET record == Head(recs)
           recencyWeight == ExpDecay023[DaysSince(t, record) \div RecencyHalfLifeDays + 1]
           totalWeight ==
             (((overallSimilarity(req, record) * recencyWeight) // Milli)
              * frequencyWeight) // Milli
       IN (IF isRelevant(req, record)
           THEN <<[Record |-> record, Weight |-> totalWeight]>> ELSE <<>>)
          \o similarFrom(req, t, Tail(recs), frequencyWeight)

findSimilarRecords(req, t, records) ==
  similarFrom(req, t, records, calculateFrequencyWeight(req, records))

(***************************************************************************)
(* detectExtremeFeedbackPattern: <<coldBoost, hotBoost>> in 1/Milli.  The  *)
(* loop runs from the last element of the list to the first.                *)
(***************************************************************************)
RECURSIVE extremeFrom(_, _, _, _, _, _)
extremeFrom(records, i, consecutiveCold, consecutiveHot, coldBoost, hotBoost) ==
  IF i < 1 THEN <<coldBoost, hotBoost>>
  ELSE LET s == records[i].Satisfaction
           cc == IF s < 30 THEN consecutiveCold + 1 ELSE 0
           ch == IF s < 30 THEN 0 ELSE IF s > 70 THEN consecutiveHot + 1 ELSE 0
       IN extremeFrom(records, i - 1, cc, ch,
                      IF cc >= 3 THEN 1500 + cc * 200 ELSE coldBoost,
                      IF ch >= 3 THEN 1500 + ch * 200 ELSE hotBoost)

detectExtremeFeedbackPattern(records) ==
  extremeFrom(records, Len(records), 0, 0, Milli, Milli)

(* calculateAdjustmentAggressiveness, in 1/Milli *)
RECURSIVE sumAdjustmentPercent(_, _)
sumAdjustmentPercent(records, i) ==
  IF i > Len(records) THEN 0
  ELSE (IF records[i - 1].HeatingTime > 0
        THEN (Abs(records[i].HeatingTime - records[i - 1].HeatingTime) * Milli)
             // records[i - 1].HeatingTime
        ELSE 0)
       + sumAdjustmentPercent(records, i + 1)

calculateAdjustmentAggressiveness(records) ==
  LET adjustmentCount ==
        Cardinality({i \in 2..Len(records) : records[i - 1].HeatingTime > 0})
  IN IF Len(records) < 2 \/ adjustmentCount = 0 THEN 0
     ELSE sumAdjustmentPercent(records, 2) // adjustmentCount

(* analyzeColdProgression, in 1/Milli *)
analyzeColdProgression(recentRecords, currentSatisfaction) ==
  LET lowSatisfactionCount ==
        Cardinality({i \in 1..Len(recentRecords) : recentRecords[i].Satisfaction < 40})
      aggressiveness == calculateAdjustmentAggressiveness(recentRecords)
  IN IF currentSatisfaction < 40
     THEN IF lowSatisfactionCount >= 2 /\ aggressiveness < 300 THEN 3 * Milli
          ELSE IF lowSatisfactionCount >= 2 /\ aggressiveness < 500 THEN 2 * Milli
          ELSE IF currentSatisfaction < 30 THEN 2500
          ELSE Milli
     ELSE Milli

(* analyzeHotProgression, in 1/Milli *)
analyzeHotProgression(recentRecords, currentSatisfaction) ==
  LET highSatisfactionCount ==
        Cardinality({i \in 1..Len(recentRecords) : recentRecords[i].Satisfaction > 60})
      aggressiveness == calculateAdjustmentAggressiveness(recentRecords)
  IN IF currentSatisfaction > 60
     THEN IF highSatisfactionCount >= 2 /\ aggressiveness < 300 THEN 3 * Milli
          ELSE IF highSatisfactionCount >= 2 /\ aggressiveness < 500 THEN 2 * Milli
          ELSE IF currentSatisfaction > 70 THEN 2500
          ELSE Milli
     ELSE Milli

(* calculateContextualBoost, in 1/Milli *)
calculateContextualBoost(records, currentSatisfaction, isCold) ==
  LET recentRecords == getRecentRecords(records, 3)
  IN IF Len(records) < 2 \/ Len(recentRecords) < 2 THEN Milli
     ELSE IF isCold THEN analyzeColdProgression(recentRecords, currentSatisfaction)
     ELSE analyzeHotProgression(recentRecords, currentSatisfaction)

(***************************************************************************)
(* findWeightedSuccessAnchors: up to three records with satisfaction > 55, *)
(* taken from the last element of the list towards the first, with their    *)
(* weight in 1/Milli.                                                       *)
(***************************************************************************)
RECURSIVE anchorsFrom(_, _, _, _)
anchorsFrom(records, t, i, found) ==
  IF i < 1 \/ Len(found) >= 3 THEN found
  ELSE LET record == records[i]
           recencyWeight == ExpDecay01[DaysSince(t, record) \div RecencyHalfLifeDays + 1]
           satisfactionWeight == ((record.Satisfaction - 55) * Milli) // 45
           totalWeight == (recencyWeight * (Milli + satisfactionWeight)) // Milli
       IN anchorsFrom(records, t, i - 1,
                      IF record.Satisfaction > 55
                      THEN Append(found, [Record |-> record, Weight |-> totalWeight])
                      ELSE found)

findWeightedSuccessAnchors(records, t) == anchorsFrom(records, t, Len(records), <<>>)

(* applyGraduatedAdjustment, in hundredths *)
applyGraduatedAdjustment(record) ==
  LET satisfaction == record.Satisfaction
      heatingTime == record.HeatingTime
  IN IF satisfaction >= 85 THEN heatingTime * 75
     ELSE IF satisfaction >= 80 THEN heatingTime * 80
     ELSE IF satisfaction >= 75 THEN heatingTime * 83
     ELSE IF satisfaction >= 65 THEN heatingTime * 87
     ELSE IF satisfaction >= 60 THEN heatingTime * 92
     ELSE IF satisfaction >= 55 THEN heatingTime * 97
     ELSE heatingTime * Centi

RECURSIVE sumAnchorTimes(_)
sumAnchorTimes(anchors) ==
  IF anchors = <<>> THEN 0
  ELSE applyGraduatedAdjustment(Head(anchors).Record) * Head(anchors).Weight
       + sumAnchorTimes(Tail(anchors))

RECURSIVE sumAnchorWeights(_)
sumAnchorWeights(anchors) ==
  IF anchors = <<>> THEN 0
  ELSE Head(anchors).Weight + sumAnchorWeights(Tail(anchors))

(* applySuccessAnchorLogic, in hundredths *)
applySuccessAnchorLogic(calculatedPrediction, successAnchors) ==
  LET totalWeight == sumAnchorWeights(successAnchors)
      anchorBasedPrediction == sumAnchorTimes(successAnchors) // totalWeight
      anchorInfluence == Min(700, totalWeight)
      calculatedInfluence == Milli - anchorInfluence
  IN IF Len(successAnchors) = 0 \/ totalWeight <= 0 THEN calculatedPrediction
     ELSE (anchorBasedPrediction * anchorInfluence
           + calculatedPrediction * calculatedInfluence) // Milli

(* countConsecutiveHotFeedback: from the last element of the list backwards *)
RECURSIVE countConsecutiveHotFeedback(_)
countConsecutiveHotFeedback(records) ==
  IF records = <<>> \/ records[Len(records)].Satisfaction <= 50 THEN 0
  ELSE 1 + countConsecutiveHotFeedback(SubSeq(records, 1, Len(records) - 1))

(* calculatePerfectScoreDecay as it would be without its floor *)
calculatePerfectScoreDecayUnfloored(perfectRecord, allSimilarRecords) ==
  LET sub == {i \in 1..Len(allSimilarRecords) :
                /\ After(allSimilarRecords[i].Record, perfectRecord)
                /\ allSimilarRecords[i].Record.HeatingTime = perfectRecord.HeatingTime}
      attempts == [i \in 1..Len(allSimilarRecords) |->
                     IF i \in sub THEN allSimilarRecords[i].Record.Satisfaction ELSE 0]
      RECURSIVE total(_)
      total(i) == IF i = 0 THEN 0 ELSE attempts[i] + total(i - 1)
      attemptCount == Cardinality(sub)
      avgSatisfaction == (total(Len(allSimilarRecords)) * Centi) // attemptCount
      satisfactionDrop == 50 * Centi - avgSatisfaction
      (* 0.5 - drop/100 - attemptCount*0.1 *)
      decayFactor == 500 - satisfactionDrop // 10 - attemptCount * 100
  IN IF attemptCount = 0 THEN Milli
     ELSE IF avgSatisfaction < 50 * Centi /\ attemptCount >= 2
          THEN clamp(decayFactor, -Milli, Milli)
          ELSE Milli

(* calculatePerfectScoreDecay, in 1/Milli *)
calculatePerfectScoreDecay(perfectRecord, allSimilarRecords) ==
  LET sub == {i \in 1..Len(allSimilarRecords) :
                /\ After(allSimilarRecords[i].Record, perfectRecord)
                /\ allSimilarRecords[i].Record.HeatingTime = perfectRecord.HeatingTime}
      attempts == [i \in 1..Len(allSimilarRecords) |->
                     IF i \in sub THEN allSimilarRecords[i].Record.Satisfaction ELSE 0]
      RECURSIVE total(_)
      total(i) == IF i = 0 THEN 0 ELSE attempts[i] + total(i - 1)
      attemptCount == Cardinality(sub)
      avgSatisfaction == (total(Len(allSimilarRecords)) * Centi) // attemptCount
      satisfactionDrop == 50 * Centi - avgSatisfaction
      (* 0.5 - drop/100 - attemptCount*0.1 *)
      decayFactor == 500 - satisfactionDrop // 10 - attemptCount * 100
  IN IF attemptCount = 0 THEN Milli
     ELSE IF avgSatisfaction < 50 * Centi /\ attemptCount >= 2
          THEN clamp(decayFactor, 100, Milli)
          ELSE Milli

(***************************************************************************)
(* The satisfaction-based adjustment of one record inside                   *)
(* calculatePrediction, in hundredths (signed).                             *)
(***************************************************************************)
adjustmentV1(record, records, similarCount, totalRecordCount) ==
  LET x == record.Satisfaction - 50
      (* 2 * |x/50|^2, in 1/(Centi*Centi) *)
      quadraticFactor == 8 * x * x
      baseAdjustmentPercent ==
        calculateDynamicLearningRate(record.Satisfaction, totalRecordCount)
      boosts == detectExtremeFeedbackPattern(records)
      contextualBoost == calculateContextualBoost(records, record.Satisfaction, x < 0)
      baseOvershoot == IF record.Satisfaction > 50 THEN Milli ELSE Milli + 8 * Abs(x)
      dampeningFactor == (5 * Milli) // (5 + similarCount)
      eff0 == Milli + ((baseOvershoot - Milli) * dampeningFactor) // Milli
      effectiveOvershoot == IF x < 0 THEN (eff0 * 11) // 10 ELSE eff0
      overshootFactor == Min(effectiveOvershoot, 1400)
      base == (quadraticFactor
               * ((record.HeatingTime * Centi * baseAdjustmentPercent) // Milli))
              // (Centi * Centi)
      consecutiveHotCount == countConsecutiveHotFeedback(records)
      cold == (((base * boosts[1]) // Milli) * contextualBoost) // Milli
      hot0 == (((base * boosts[2]) // Milli) * contextualBoost) // Milli
      hot == IF consecutiveHotCount >= 2
             THEN (hot0 * (400 + 200 * consecutiveHotCount)) // Milli
             ELSE (hot0 * 600) // Milli
  IN IF x = 0 THEN 0
     ELSE IF x < 0 THEN (cold * overshootFactor) // Milli
     ELSE -((hot * overshootFactor) // Milli)

RECURSIVE sumTargetV1(_, _, _, _, _)
sumTargetV1(sims, i, records, totalRecordCount, weighted) ==
  IF i > Len(sims) THEN 0
  ELSE LET record == sims[i].Record
           weight == IF record.Satisfaction = 50
                     THEN (sims[i].Weight * calculatePerfectScoreDecay(record, sims))
                          // Milli
                     ELSE sims[i].Weight
           targetTime == record.HeatingTime * Centi
                         + adjustmentV1(record, records, Len(sims), totalRecordCount)
       IN (IF weighted THEN targetTime * weight ELSE weight)
          + sumTargetV1(sims, i + 1, records, totalRecordCount, weighted)

(* calculatePrediction, in hundredths *)
calculatePrediction(req, t, records, totalRecordCount) ==
  LET similarRecords == findSimilarRecords(req, t, records)
      successAnchors == findWeightedSuccessAnchors(records, t)
      totalWeightedTargetTime ==
        sumTargetV1(similarRecords, 1, records, totalRecordCount, TRUE)
      totalWeight == sumTargetV1(similarRecords, 1, records, totalRecordCount, FALSE)
      anchored == applySuccessAnchorLogic(totalWeightedTargetTime // totalWeight,
                                          successAnchors)
  IN IF Len(similarRecords) = 0 THEN predictWithDefaults(req) * Centi
     ELSE IF isStuckInPattern(records) THEN handleStuckPattern(records)
     ELSE IF totalWeight > 0 THEN clamp(anchored, 5 * Centi, 120 * Centi)
     ELSE predictWithDefaults(req) * Centi

calculatePredictionFromRecords(req, t, records, totalRecordCount) ==
  IF Len(records) = 0 THEN predictWithDefaults(req) * Centi
  ELSE calculatePrediction(req, t, records, totalRecordCount)

(* getCombinedPrediction, in hundredths *)
getCombinedPrediction(req, t, userRecords, globalRecords) ==
  LET userWeight == calculateUserWeight(req, userRecords)
      globalWeight == Milli - userWeight
      userPrediction ==
        IF userWeight > 0
        THEN calculatePredictionFromRecords(req, t, userRecords, Len(userRecords))
        ELSE 0
      clusteredGlobalRecords == getClusteredGlobalRecords(req, globalRecords)
      globalPrediction ==
        calculatePredictionFromRecords(req, t, clusteredGlobalRecords,
                                       Len(clusteredGlobalRecords))
      finalPrediction ==
        (userPrediction * userWeight + globalPrediction * globalWeight) // Milli
  IN IF userWeight = 0 THEN globalPrediction
     ELSE IF Len(globalRecords) = 0 THEN userPrediction
     ELSE clamp(finalPrediction, 5 * Centi, 120 * Centi)

(***************************************************************************)
(* PredictionService.PredictHeatingTime: the heating time, whole minutes.  *)
(***************************************************************************)
PredictHeatingTime(st, t, req) ==
  LET userRecords == GetRecordsForPredictionByUser(st, req.UserID, UserLimitV1)
      globalRecords == GetGlobalRecordsForPrediction(st, req.UserID, GlobalLimitV1)
  IN Round(getCombinedPrediction(req, t, userRecords, globalRecords))

(***************************************************************************)
(* ------------------------- The state machine --------------------------- *)
(*   store   : the observation store, oldest record first                   *)
(*   now     : the clock, in periods of RecencyHalfLifeDays days            *)
(*   version : cfg.Prediction.Version, which SetupRouter reads once         *)
(*   last    : the latest response handed to the caller, with its request,  *)
(*             the time of the call and the size of the store it read       *)
(*   reply   : the latest reply of an HTTP handler, with the request body,  *)
(*             the status, whether the predictor was invoked and how many   *)
(*             fetches it issued to the store, and which operations of the  *)
(*             store were failing while it was handled                      *)
(***************************************************************************)
Owners == {"u1", "u2"}
Durations == {10, 15}
Temperatures == {22}
HeatingTimes == {20}
Satisfactions == {10, 50, 90}

Requests(owners, durations, temperatures) ==
  [UserID : owners, Duration : durations, Temperature : temperatures]

(* Predictor.Predict as SetupRouter wires it: v2 unless the version is "v1" *)
PredictWith(v, st, t, req) ==
  IF v # "v1" THEN PredictV2(st, t, req) ELSE PredictHeatingTime(st, t, req)

Init ==
  /\ store = <<>>
  /\ now = 0
  /\ version \in {"v1", "v2"}
  /\ last = None
  /\ reply = None

(* RecordService.CreateRecord: the date is the time of the call. The store *)
(* of the model holds at most cap records.                                 *)
CreateRecord(cap, userID, duration, temperature, heatingTime, satisfaction) ==
  /\ Len(store) < cap
  /\ store' = Append(store, [UserID |-> userID,
                             Date |-> now,
                             Ord |-> Len(store) + 1,
                             ShowerDuration |-> duration,
                             AverageTemperature |-> temperature,
                             HeatingTime |-> heatingTime,
                             Satisfaction |-> satisfaction])
  /\ UNCHANGED <<now, version, last, reply>>

(* POST /api/calculate with a valid request *)
Predict(req) ==
  /\ last' = [req |-> req,
              resp |-> PredictWith(version, store, now, req),
              at |-> now,
              n |-> Len(store)]
  /\ UNCHANGED <<store, now, version, reply>>

(* Time passes *)
Tick ==
  /\ now < MaxNow
  /\ now' = now + 1
  /\ UNCHANGED <<store, version, last, reply>>

(* The heating time the caller was told, with each satisfaction of sats *)
Told(sats) ==
  IF last = None THEN {} ELSE {<<last.resp, s>> : s \in sats}

(* A caller reports one of a few outcomes <<heatingTime, satisfaction>>, or *)
(* the heating time it was told with a satisfaction of toldSats            *)
NextOver(cap, owners, durations, temperatures, outcomes, toldSats) ==
  \/ \E u \in owners, d \in durations, c \in temperatures,
        o \in outcomes \cup Told(toldSats) :
          CreateRecord(cap, u, d, c, o[1], o[2])
  \/ \E req \in Requests(owners, durations, temperatures) : Predict(req)
  \/ Tick

Next ==
  NextOver(MaxRecs, Owners, Durations, Temperatures,
           HeatingTimes \X Satisfactions, {})

Spec == Init /\ [][Next]_vars

(***************************************************************************)
(* ------------------------- Scenarios ----------------------------------- *)
(* One owner asking for one shower, with the outcomes a scenario needs.    *)
(***************************************************************************)
Owner == {"u1"}
Shower == {15}
Ambient == {22}

(* Four attempts at one heating time, all rated cold *)
StuckOutcomes == {<<100, 20>>, <<2, 20>>}
NextStuck == NextOver(MaxStuckRecs, Owner, Shower, Ambient, StuckOutcomes, {})
SpecStuck == Init /\ [][NextStuck]_vars

(* One perfect observation among cold ones *)
AnchorOutcomes == {<<10, 50>>, <<20, 10>>}
NextAnchor == NextOver(MaxScenarioRecs, Owner, Shower, Ambient, AnchorOutcomes, {})
SpecAnchor == Init /\ [][NextAnchor]_vars

(* Feedback on the heating time the caller was told *)
FeedbackOutcomes == {<<10, 90>>, <<20, 50>>}
FeedbackSatisfactions == {10, 90}
NextFeedback ==
  NextOver(MaxScenarioRecs, Owner, Shower, Ambient,
           FeedbackOutcomes, FeedbackSatisfactions)
SpecFeedback == Init /\ [][NextFeedback]_vars

(* Observations rated hot *)
HotOutcomes == {<<20, 90>>, <<10, 90>>}
NextHot == NextOver(MaxScenarioRecs, Owner, Shower, Ambient, HotOutcomes, {})
SpecHot == Init /\ [][NextHot]_vars

(* Heating times that were all too cold *)
ColdOutcomes == {<<10, 40>>, <<30, 40>>}
NextCold == NextOver(MaxScenarioRecs, Owner, Shower, Ambient, ColdOutcomes, {})
SpecCold == Init /\ [][NextCold]_vars

(* One heating time that was too hot every time, much or a little *)
HotStuckOutcomes == {<<20, 90>>, <<20, 60>>}
NextHotStuck ==
  NextOver(MaxStuckRecs, Owner, Shower, Ambient, HotStuckOutcomes, {})
SpecHotStuck == Init /\ [][NextHotStuck]_vars

(* More records than the windows of the pattern guard hold *)
WindowOutcomes == {<<20, 40>>}
NextWindow ==
  NextOver(MaxWindowRecs, Owner, Shower, Ambient, WindowOutcomes, {})
SpecWindow == Init /\ [][NextWindow]_vars

(* An owner stuck on a heating time that is too cold, beside another user  *)
(* who found a perfect one                                                 *)
NextBlend ==
  \/ \E d \in Shower, c \in Ambient : CreateRecord(MaxBlendRecs, "u1", d, c, 100, 20)
  \/ \E d \in Shower, c \in Ambient : CreateRecord(MaxBlendRecs, "u2", d, c, 20, 50)
  \/ \E req \in Requests(Owners, Shower, Ambient) : Predict(req)
  \/ Tick

SpecBlend == Init /\ [][NextBlend]_vars

(* Three observations rated perfect or nearly so *)
ExampleOutcomes == {<<10, 45>>, <<10, 46>>, <<11, 50>>}
NextExamples == NextOver(MaxScenarioRecs, Owner, Shower, Ambient, ExampleOutcomes, {})
SpecExamples == Init /\ [][NextExamples]_vars

(***************************************************************************)
(* ------------------------- The HTTP handlers --------------------------- *)
(* A fetch from the store or a write to it can fail; whether it does is an *)
(* input of the step.                                                      *)
(***************************************************************************)

(* ShouldBindJSON into PredictionRequest (required, min, max) followed by   *)
(* the range checks of CalculateHeatingTime.  "required" refuses the zero   *)
(* value of a field.                                                       *)
acceptsQueryUnbounded(req) ==
  /\ req.UserID # ""
  /\ req.Duration # 0
  /\ req.Temperature # 0

acceptsQuery(req) ==
  /\ req.UserID # ""
  /\ req.Duration # 0
  /\ req.Temperature # 0
  /\ ~(req.Duration < 1 \/ req.Duration > 60)
  /\ ~(req.Temperature < -50 \/ req.Temperature > 50)

(* Predictor.Predict: the two fetches in order, the error of the first     *)
(* that fails, else the heating time                                       *)
PredictOrDefault(v, st, t, req, userFetch, globalFetch) ==
  IF ~userFetch
  THEN [err |-> "", response |-> [HeatingTime |-> predictWithDefaults(req)],
        fetched |-> 1]
  ELSE IF ~globalFetch
  THEN [err |-> "", response |-> [HeatingTime |-> predictWithDefaults(req)],
        fetched |-> 2]
  ELSE [err |-> "", response |-> [HeatingTime |-> PredictWith(v, st, t, req)],
        fetched |-> 2]

PredictOrError(v, st, t, req, userFetch, globalFetch) ==
  IF ~userFetch THEN [err |-> "store", response |-> None, fetched |-> 1]
  ELSE IF ~globalFetch THEN [err |-> "store", response |-> None, fetched |-> 2]
  ELSE [err |-> "", response |-> [HeatingTime |-> PredictWith(v, st, t, req)],
        fetched |-> 2]

(* The reply of CalculateHeatingTime to a request it refused, and to one *)
(* it handed to the predictor                                            *)
refusedQuery(req, failing) ==
  [op |-> "calculate", body |-> req, failing |-> failing, status |-> 400,
   invoked |-> FALSE, fetched |-> 0, response |-> None]

answeredQuery(req, failing, out) ==
  [op |-> "calculate", body |-> req, failing |-> failing,
   status |-> IF out.err # "" THEN 500 ELSE 200,
   invoked |-> TRUE, fetched |-> out.fetched, response |-> out.response]

(* Which of the store's operations fail during a step *)
Failing(userFetch, globalFetch, created) ==
  (IF userFetch THEN {} ELSE {"user"})
    \cup (IF globalFetch THEN {} ELSE {"global"})
    \cup (IF created THEN {} ELSE {"create"})

(* POST /api/calculate *)
CalculateHeatingTime(req, userFetch, globalFetch) ==
  /\ reply' = IF ~acceptsQuery(req)
              THEN refusedQuery(req, Failing(userFetch, globalFetch, TRUE))
              ELSE answeredQuery(req, Failing(userFetch, globalFetch, TRUE),
                                 PredictOrError(version, store, now, req,
                                                userFetch, globalFetch))
  /\ last' = IF acceptsQuery(req) /\ userFetch /\ globalFetch
             THEN [req |-> req, resp |-> PredictWith(version, store, now, req),
                   at |-> now, n |-> Len(store)]
             ELSE last
  /\ UNCHANGED <<store, now, version>>

acceptsFeedbackAnyHeatingTime(record) ==
  /\ ~(record.ShowerDuration <= 0)
  /\ ~(record.Satisfaction < 1 \/ record.Satisfaction > 10)

(* The checks of SubmitFeedback on the record it was sent *)
acceptsFeedback(record) ==
  /\ ~(record.ShowerDuration <= 0)
  /\ ~(record.HeatingTime <= 0)
  /\ ~(record.Satisfaction < 1 \/ record.Satisfaction > 10)

(* POST /api/feedback.  The store of the model holds at most cap records.  *)
SubmitFeedback(cap, record, created) ==
  /\ acceptsFeedback(record) /\ created => Len(store) < cap
  /\ reply' = [op |-> "feedback", body |-> record,
               failing |-> Failing(TRUE, TRUE, created),
               status |-> IF ~acceptsFeedback(record) THEN 400
                          ELSE IF ~created THEN 500 ELSE 200,
               invoked |-> FALSE, fetched |-> 0, response |-> None]
  /\ store' = IF acceptsFeedback(record) /\ created
              THEN Append(store, [UserID |-> record.UserID,
                                  Date |-> now,
                                  Ord |-> Len(store) + 1,
                                  ShowerDuration |-> record.ShowerDuration,
                                  AverageTemperature |-> record.AverageTemperature,
                                  HeatingTime |-> record.HeatingTime,
                                  Satisfaction |-> record.Satisfaction])
              ELSE store
  /\ UNCHANGED <<now, version, last>>

ApiRequests ==
  [UserID : {"u1"}, Duration : {0, 15, 61}, Temperature : {-51, 0, 22, 51}]

ApiFeedback ==
  [UserID : {"u1"}, ShowerDuration : {0, 15}, AverageTemperature : {22},
   HeatingTime : {0, 20}, Satisfaction : {0, 5, 11, 50, 90}]

NextApi ==
  \/ \E req \in ApiRequests, userFetch, globalFetch \in BOOLEAN :
        CalculateHeatingTime(req, userFetch, globalFetch)
  \/ \E record \in ApiFeedback, created \in BOOLEAN :
        SubmitFeedback(MaxApiRecs, record, created)
  \/ Tick

SpecApi == Init /\ [][NextApi]_vars

(***************************************************************************)
(* ------------------------- calculateUserWeight on its own -------------- *)
(* The owner's records lie at two conditions; a query is within the        *)
(* relevance window of one of them or of neither.  last then holds the     *)
(* weight, in 1/Milli, in place of a heating time.                         *)
(***************************************************************************)
WeightConditions == {<<13, 22>>, <<14, 20>>}

WeightRequests == [UserID : Owner, Duration : {10}, Temperature : {19, 20}]

UserWeightOf(req) ==
  /\ last' = [req |-> req,
              resp |-> calculateUserWeight(req,
                         GetRecordsForPredictionByUser(store, req.UserID,
                                                       UserLimitV1)),
              at |-> now, n |-> Len(store)]
  /\ UNCHANGED <<store, now, version, reply>>

NextWeight ==
  \/ \E u \in Owner, c \in WeightConditions :
        CreateRecord(MaxWeightRecs, u, c[1], c[2], 20, 50)
  \/ \E req \in WeightRequests : UserWeightOf(req)

SpecWeight == Init /\ [][NextWeight]_vars

(***************************************************************************)
(* ------------------------- An experienced owner ------------------------ *)
(* The store already holds ExperiencedRecs records of u1 at the conditions *)
(* of the queries; u1 and u2 add to it.                                    *)
(***************************************************************************)
ExperiencedOutcomes == {<<100, 20>>, <<20, 50>>}

InitExperienced ==
  /\ store = [i \in 1..ExperiencedRecs |->
                [UserID |-> "u1", Date |-> 0, Ord |-> i,
                 ShowerDuration |-> 15, AverageTemperature |-> 22,
                 HeatingTime |-> 100, Satisfaction |-> 20]]
  /\ now = 0
  /\ version \in {"v1", "v2"}
  /\ last = None
  /\ reply = None

NextExperienced ==
  NextOver(MaxExperiencedRecs, Owners, Shower, Ambient, ExperiencedOutcomes, {})

SpecExperienced == InitExperienced /\ [][NextExperienced]_vars

(***************************************************************************)
(* ------------------------- impliedTarget on its own -------------------- *)
(* Records over the whole scale of satisfaction, with every threshold of   *)
(* impliedTarget and its neighbours.  last then holds the record and its   *)
(* target, in hundredths of a minute.                                      *)
(***************************************************************************)
TargetHeatingTimes == {7, 20}

TargetSatisfactions ==
  {1, 10, 25, 40, 48, 49, 50, 51, 52, 54, 55, 59, 60, 64, 65, 74, 75, 79, 80,
   84, 85, 90, 100}

ImpliedTargetOf(i) ==
  /\ i \in 1..Len(store)
  /\ last' = [req |-> store[i], resp |-> impliedTarget(store[i]),
              at |-> now, n |-> Len(store)]
  /\ UNCHANGED <<store, now, version, reply>>

NextTarget ==
  \/ \E u \in Owner, d \in Shower, c \in Ambient,
         h \in TargetHeatingTimes, s \in TargetSatisfactions :
        CreateRecord(MaxTargetRecs, u, d, c, h, s)
  \/ \E i \in 1..MaxTargetRecs : ImpliedTargetOf(i)

SpecTarget == Init /\ [][NextTarget]_vars

(***************************************************************************)
(* ------------------------- calculatePerfectScoreDecay on its own ------- *)
(* A perfect record, later attempts at its heating time or next to it, and *)
(* the decay of the perfect record among the records similar to a query at *)
(* their conditions.  last then holds the perfect record and its decay     *)
(* factor, in 1/Milli.                                                     *)
(***************************************************************************)
DecayOutcomes == {<<20, 50>>, <<20, 10>>, <<20, 45>>, <<20, 60>>, <<21, 10>>}

PerfectScoreDecayOf(i, req) ==
  /\ i \in 1..Len(store)
  /\ store[i].Satisfaction = 50
  /\ last' = [req |-> store[i],
              resp |-> calculatePerfectScoreDecay(store[i],
                         findSimilarRecords(req, now,
                           GetRecordsForPredictionByUser(store, req.UserID,
                                                         UserLimitV1))),
              at |-> now, n |-> Len(store)]
  /\ UNCHANGED <<store, now, version, reply>>

NextDecay ==
  \/ \E u \in Owner, d \in Shower, c \in Ambient, o \in DecayOutcomes :
        CreateRecord(MaxDecayRecs, u, d, c, o[1], o[2])
  \/ \E i \in 1..MaxDecayRecs, req \in Requests(Owner, Shower, Ambient) :
        PerfectScoreDecayOf(i, req)

SpecDecay == Init /\ [][NextDecay]_vars

(***************************************************************************)
(* ------------------------- NewPredictionServiceV2 on its own ----------- *)
(* The configuration the constructor builds from the one it is given.      *)
(* AnchorBoost and AnchorBlend are in 1/Milli, StepCapFraction in 1/Centi. *)
(***************************************************************************)

(* The defaults literal of NewPredictionServiceV2 *)
defaultCfg ==
  [SigmaDuration |-> SigmaDuration, SigmaTemp |-> SigmaTemp, K |-> K,
   MinK |-> MinK, AnchorEpsilon |-> AnchorEpsilon,
   AnchorBoost |-> AnchorBoostMilli, AnchorBlend |-> AnchorBlendMilli,
   RecencyHalfLifeDays |-> RecencyHalfLifeDays, UserBoost |-> UserBoost,
   StepCapFraction |-> StepCapFractionCenti, MinMinutes |-> MinMinutes,
   MaxMinutes |-> MaxMinutes, NeverCold |-> NeverCold]

positiveOr(x, default) == IF x > 0 THEN x ELSE default

(* NewPredictionServiceV2: the resulting cfg; None stands for a nil cfg *)
NewPredictionServiceV2(cfg) ==
  IF cfg = None THEN defaultCfg
  ELSE [SigmaDuration |-> positiveOr(cfg.SigmaDuration, defaultCfg.SigmaDuration),
        SigmaTemp |-> positiveOr(cfg.SigmaTemp, defaultCfg.SigmaTemp),
        K |-> positiveOr(cfg.K, defaultCfg.K),
        MinK |-> positiveOr(cfg.MinK, defaultCfg.MinK),
        AnchorEpsilon |-> positiveOr(cfg.AnchorEpsilon, defaultCfg.AnchorEpsilon),
        AnchorBoost |-> positiveOr(cfg.AnchorBoost, defaultCfg.AnchorBoost),
        AnchorBlend |-> IF cfg.AnchorBlend >= 0 /\ cfg.AnchorBlend <= Milli
                        THEN cfg.AnchorBlend ELSE defaultCfg.AnchorBlend,
        RecencyHalfLifeDays |-> positiveOr(cfg.RecencyHalfLifeDays,
                                           defaultCfg.RecencyHalfLifeDays),
        UserBoost |-> positiveOr(cfg.UserBoost, defaultCfg.UserBoost),
        StepCapFraction |-> IF cfg.StepCapFraction > 0 /\ cfg.StepCapFraction < Centi
                            THEN cfg.StepCapFraction
                            ELSE defaultCfg.StepCapFraction,
        MinMinutes |-> positiveOr(cfg.MinMinutes, defaultCfg.MinMinutes),
        MaxMinutes |-> positiveOr(cfg.MaxMinutes, defaultCfg.MaxMinutes),
        NeverCold |-> cfg.NeverCold]

(* Configurations with some fields set and the others left at zero *)
PartialConfigs ==
  [SigmaDuration : {0, 6}, SigmaTemp : {0}, K : {0, 60}, MinK : {0},
   AnchorEpsilon : {0, 5}, AnchorBoost : {0, 1600}, AnchorBlend : {0, 500},
   RecencyHalfLifeDays : {0}, UserBoost : {0}, StepCapFraction : {0, 50},
   MinMinutes : {0}, MaxMinutes : {0, 90}, NeverCold : {FALSE}]

(* last then holds the configuration given and the one that results *)
Configure(cfg) ==
  /\ last' = [req |-> cfg, resp |-> NewPredictionServiceV2(cfg),
              at |-> now, n |-> Len(store)]
  /\ UNCHANGED <<store, now, version, reply>>

NextConfig ==
  \/ \E cfg \in PartialConfigs \cup {None} : Configure(cfg)
  \/ Tick

SpecConfig == Init /\ [][NextConfig]_vars

(***************************************************************************)
(* ------------------------- Properties ---------------------------------- *)
(***************************************************************************)

(* The observations the latest response was computed from *)
Seen == SubSeq(store, 1, last.n)

(* r was recorded by the owner of req under the conditions of req *)
AtConditions(r, req) ==
  /\ r.UserID = req.UserID
  /\ r.ShowerDuration = req.Duration
  /\ r.AverageTemperature = req.Temperature

AllAtConditions ==
  \A i \in 1..last.n : AtConditions(store[i], last.req)

(* C1: every heating time handed to a caller lies within the absolute      *)
(* range, MinMinutes <= heatingTime <= MaxMinutes, whatever path of the    *)
(* predictor produced it.                                                  *)
Bounds ==
  last # None => (MinMinutes <= last.resp /\ last.resp <= MaxMinutes)

(* C2: a query answered from an empty store gets the value of the default  *)
(* formula, base + 0.4 per minute of shower - 0.15 per degree, at least 5. *)
ColdStartDefault ==
  (last # None /\ last.n = 0) => last.resp = predictWithDefaults(last.req)

(* C3: the same query against the same observations gets the same answer,  *)
(* whenever it is asked.                                                   *)
Idempotence ==
  [][(last # None /\ last'.req = last.req /\ last'.n = last.n)
       => last'.resp = last.resp]_vars

(* C4: against the same observations at the same instant, for one owner, a *)
(* longer shower never gets a heating time more than half a minute shorter *)
(* and a warmer day never gets one more than half a minute longer.         *)
Monotonicity ==
  [][(/\ last # None
      /\ last'.n = last.n
      /\ last'.at = last.at
      /\ last'.req.UserID = last.req.UserID)
       => /\ (/\ last'.req.Temperature = last.req.Temperature
              /\ last'.req.Duration > last.req.Duration)
             => 2 * (last.resp - last'.resp) <= 1
          /\ (/\ last'.req.Duration = last.req.Duration
              /\ last'.req.Temperature > last.req.Temperature)
             => 2 * (last'.resp - last.resp) <= 1]_vars

(* r with its satisfaction as far on the other side of 50 *)
Mirror(r) == [r EXCEPT !.Satisfaction = 100 - r.Satisfaction]

(* C5: an observation and its mirror image around satisfaction 50 imply    *)
(* targets that leave the heating time by the same amount in opposite      *)
(* directions.                                                             *)
SymmetryOfCorrection ==
  \A i \in DOMAIN store :
    impliedTarget(store[i]) - store[i].HeatingTime * Centi
      = -(impliedTarget(Mirror(store[i])) - store[i].HeatingTime * Centi)

(* The perfect and the cold among the observations seen *)
PerfectSeen == {i \in 1..last.n : store[i].Satisfaction = 50}
ColdSeen == {i \in 1..last.n : store[i].Satisfaction < 50}

RECURSIVE SumHeatingTimes(_)
SumHeatingTimes(recs) ==
  IF recs = <<>> THEN 0 ELSE Head(recs).HeatingTime + SumHeatingTimes(Tail(recs))

(* One perfect observation and two or more cold ones at one other heating  *)
(* time, all of the asking owner under the conditions asked about, put to  *)
(* the predictor wired by default                                          *)
AnchorScenario ==
  /\ last # None
  /\ version # "v1"
  /\ AllAtConditions
  /\ Cardinality(PerfectSeen) = 1
  /\ Cardinality(ColdSeen) >= 2
  /\ PerfectSeen \cup ColdSeen = 1..last.n
  /\ \A i, j \in ColdSeen : store[i].HeatingTime = store[j].HeatingTime
  /\ \A i \in ColdSeen, j \in PerfectSeen : store[i].HeatingTime # store[j].HeatingTime

(* C6: when the observations are one perfect one and two or more cold ones *)
(* at one other heating time, all of the asking owner under the conditions *)
(* asked about, the answer of the predictor wired by default (v2, with the *)
(* configuration it is constructed with) is strictly closer to the perfect *)
(* observation's heating time than the plain mean of the heating times is. *)
AnchorPull ==
  AnchorScenario =>
    LET anchor == store[CHOOSE i \in PerfectSeen : TRUE].HeatingTime
    IN last.n * Abs(last.resp - anchor)
         < Abs(SumHeatingTimes(Seen) - last.n * anchor)

(* Every observation is the asking owner's, under the conditions asked     *)
(* about, rated 50 at one heating time within the absolute range           *)
PerfectHistory ==
  /\ last # None
  /\ last.n > 0
  /\ AllAtConditions
  /\ \A i \in 1..last.n : /\ store[i].Satisfaction = 50
                          /\ store[i].HeatingTime = store[1].HeatingTime
  /\ MinMinutes <= store[1].HeatingTime
  /\ store[1].HeatingTime <= MaxMinutes

(* C7: when every observation is the asking owner's, under the conditions  *)
(* asked about, rated 50 at one heating time P within the absolute range,  *)
(* the answer is P.                                                        *)
PerfectFixedPoint ==
  PerfectHistory => last.resp = store[1].HeatingTime

(* C8: when the owner reports the heating time it was told as too cold and *)
(* asks again, the new answer is not lower; when it reports it as too hot, *)
(* the new answer is not higher.                                           *)
LearningDirection ==
  [][(/\ last # None
      /\ last'.req = last.req
      /\ last'.n = last.n + 1
      /\ AtConditions(store[last'.n], last.req)
      /\ store[last'.n].HeatingTime = last.resp)
       => /\ store[last'.n].Satisfaction < 50 => last'.resp >= last.resp
          /\ store[last'.n].Satisfaction > 50 => last'.resp <= last.resp]_vars

(* The only observation is the asking owner's, under the conditions asked  *)
(* about, rated 90 at 20 minutes                                           *)
HotHistory ==
  /\ last # None
  /\ last.n = 1
  /\ AllAtConditions
  /\ store[1].Satisfaction = 90
  /\ store[1].HeatingTime = 20

(* C9: when the only observation is the asking owner's, under the          *)
(* conditions asked about, rated 90 at 20 minutes, the answer is below 20. *)
HotExample ==
  HotHistory => last.resp < 20

(* The hot example answered after time has passed *)
HotExampleAnswered ==
  HotHistory /\ last.resp < 20 /\ last.at > store[1].Date

(* The observations are the asking owner's three, under the conditions     *)
(* asked about: 10 minutes rated 45, 10 minutes rated 46, 11 minutes rated *)
(* 50, in any order                                                        *)
NearPerfectHistory ==
  /\ last # None
  /\ last.n = 3
  /\ AllAtConditions
  /\ {<<store[i].HeatingTime, store[i].Satisfaction>> : i \in 1..3}
       = {<<10, 45>>, <<10, 46>>, <<11, 50>>}

(* C10: when the observations are the asking owner's three, under the      *)
(* conditions asked about, 10 minutes rated 45, 10 minutes rated 46 and 11 *)
(* minutes rated 50 in any order, the answer is within a minute of the     *)
(* span from 10 to 11 and is neither end of the absolute range.            *)
NearPerfectExample ==
  NearPerfectHistory =>
    /\ 10 - 1 <= last.resp
    /\ last.resp <= 11 + 1
    /\ last.resp # MinMinutes
    /\ last.resp # MaxMinutes

(* The near-perfect example answered inside the span *)
NearPerfectExampleAnswered ==
  NearPerfectHistory /\ last.resp \in {10, 11}

(***************************************************************************)
(* ------------------------- The handlers' contract ---------------------- *)
(***************************************************************************)

Calculated == reply # None /\ reply.op = "calculate"

OutOfRange(req) ==
  \/ req.Duration < 1 \/ req.Duration > 60
  \/ req.Temperature < -50 \/ req.Temperature > 50

(* C11: a calculate request whose duration is outside [1,60] or whose      *)
(* temperature is outside [-50,50] is rejected with a validation error; the *)
(* predictor is not invoked and no fetch is issued to the store.            *)
QueryValidation ==
  Calculated /\ OutOfRange(reply.body)
    => /\ reply.status = 400
       /\ ~reply.invoked
       /\ reply.fetched = 0
       /\ reply.response = None

QueryRejected ==
  /\ Calculated
  /\ reply.body.Duration > 60
  /\ reply.body.Temperature = 22
  /\ reply.status = 400
  /\ store # <<>>

(* C12: when either fetch fails, the predictor returns the error and no    *)
(* heating time, never a number in its place, and the handler reports a    *)
(* failure that is not a validation error.                                 *)
StoreFailuresNotMasked ==
  Calculated /\ reply.invoked /\ reply.failing # {}
    => /\ reply.response = None
       /\ reply.status = 500
       /\ reply.status # 400

GlobalFetchFailed ==
  /\ Calculated
  /\ reply.invoked
  /\ reply.failing = {"global"}
  /\ reply.fetched = 2
  /\ reply.status = 500
  /\ store # <<>>

Submitted == reply # None /\ reply.op = "feedback"

(* A record as SubmitFeedback hands it to the store *)
Stored(record, r) ==
  /\ r.UserID = record.UserID
  /\ r.ShowerDuration = record.ShowerDuration
  /\ r.AverageTemperature = record.AverageTemperature
  /\ r.HeatingTime = record.HeatingTime
  /\ r.Satisfaction = record.Satisfaction

(* C14: a feedback with a non-positive shower duration, a non-positive     *)
(* heating time or a satisfaction outside the scale the handler accepts    *)
(* (1 to 10) is rejected and leaves the store as it was; the store changes *)
(* only by one record appended for a submission that passed every check.   *)
FeedbackNoPartialEffect ==
  [][/\ (/\ reply' # None /\ reply' # reply /\ reply'.op = "feedback"
         /\ \/ reply'.body.ShowerDuration <= 0
            \/ reply'.body.HeatingTime <= 0
            \/ reply'.body.Satisfaction < 1
            \/ reply'.body.Satisfaction > 10)
        => reply'.status = 400 /\ store' = store
     /\ store' # store
        => /\ reply' # None /\ reply'.op = "feedback" /\ reply'.status = 200
           /\ reply'.body.ShowerDuration > 0
           /\ reply'.body.HeatingTime > 0
           /\ reply'.body.Satisfaction \in 1..10
           /\ Len(store') = Len(store) + 1
           /\ SubSeq(store', 1, Len(store)) = store
           /\ Stored(reply'.body, store'[Len(store')])]_vars

FeedbackRejectedAfterAccepted ==
  /\ Submitted
  /\ reply.status = 400
  /\ reply.body.ShowerDuration > 0
  /\ reply.body.HeatingTime <= 0
  /\ reply.body.Satisfaction \in 1..10
  /\ Len(store) = 1

(* C15: the satisfaction values accepted at submission are the scale the   *)
(* engine reads, 1 to 100 with 50 for perfect: a feedback with positive    *)
(* duration and heating time and a satisfaction on that scale, 50 and 90   *)
(* among them, is accepted and stored when the store does not fail.        *)
OneSatisfactionScale ==
  (/\ Submitted
   /\ reply.failing = {}
   /\ reply.body.ShowerDuration > 0
   /\ reply.body.HeatingTime > 0
   /\ reply.body.Satisfaction \in 1..100)
    => /\ reply.status = 200
       /\ store # <<>>
       /\ Stored(reply.body, store[Len(store)])

(***************************************************************************)
(* ------------------------- Degenerate weights -------------------------- *)
(***************************************************************************)

(* The weights Predict of v2 computed for the answered query *)
WeightsV2 ==
  wrapAll(last.req, last.at,
          GetRecordsForPredictionByUser(Seen, last.req.UserID, UserLimitV2),
          GetGlobalRecordsForPrediction(Seen, last.req.UserID, GlobalLimitV2))

(* The records calculatePrediction of v1 weighed for the answered query,   *)
(* the owner's and the clustered global ones                               *)
WeightsV1 ==
  findSimilarRecords(last.req, last.at,
      GetRecordsForPredictionByUser(Seen, last.req.UserID, UserLimitV1))
    \o findSimilarRecords(last.req, last.at,
         getClusteredGlobalRecords(last.req,
           GetGlobalRecordsForPrediction(Seen, last.req.UserID, GlobalLimitV1)))

AllWeightsZero ==
  IF version # "v1"
  THEN \A i \in 1..Len(WeightsV2) : WeightsV2[i].weight <= 0
  ELSE WeightsV1 # <<>> /\ \A i \in 1..Len(WeightsV1) : WeightsV1[i].Weight <= 0

(* C13: a query answered from a store that is not empty but in which every *)
(* record weighs zero gets the value of the default formula, the one given *)
(* for an empty store, and no other constant.                              *)
DegenerateWeightFallback ==
  last # None /\ Seen # <<>> /\ AllWeightsZero
    => last.resp = predictWithDefaults(last.req)

(***************************************************************************)
(* ------------------------- The user weight ----------------------------- *)
(***************************************************************************)

(* r is within 2 degrees and 3 minutes of the query *)
Relevant(req, r) ==
  /\ Abs(r.AverageTemperature - req.Temperature) <= 2
  /\ Abs(r.ShowerDuration - req.Duration) <= 3

RelevantCount(req, recs) ==
  Cardinality({i \in 1..Len(recs) : Relevant(req, recs[i])})

(* C16: calculateUserWeight is min(1, relevantCount/10): it lies in [0,1], *)
(* is 0 without relevant records, 0.5 for five and 1 for ten or more, and  *)
(* does not decrease when a relevant record is added.                      *)
UserWeight ==
  [][last' # None =>
       LET k == RelevantCount(last'.req, SubSeq(store', 1, last'.n))
       IN /\ last'.resp = Min(Milli, k * Centi)
          /\ 0 <= last'.resp /\ last'.resp <= Milli
          /\ k = 0 => last'.resp = 0
          /\ k = 5 => last'.resp = 5 * Centi
          /\ k >= 10 => last'.resp = Milli
          /\ (/\ last # None
              /\ last'.req = last.req
              /\ last'.n = last.n + 1
              /\ Relevant(last.req, store[last'.n]))
             => last'.resp >= last.resp]_vars

FullUserWeight ==
  /\ last # None
  /\ last.resp = Milli
  /\ RelevantCount(last.req, Seen) = 10
  /\ last.n > 10

(***************************************************************************)
(* ------------------------- Personalisation ----------------------------- *)
(***************************************************************************)

(* The owner's part of the records a response was computed from *)
OwnRecords(l) ==
  GetRecordsForPredictionByUser(SubSeq(store, 1, l.n), l.req.UserID, UserLimitV1)

(* C17: for an owner with at least ten relevant records, user weight 1,    *)
(* PredictHeatingTime gives the same response whatever the global pool:    *)
(* two responses to the same query at the same time over the same records  *)
(* of the owner are equal.                                                 *)
FullPersonalisation ==
  [][(/\ version = "v1"
      /\ last # None /\ last' # None
      /\ last'.req = last.req
      /\ last'.at = last.at
      /\ OwnRecords(last)' = OwnRecords(last)
      /\ RelevantCount(last.req, OwnRecords(last)) >= 10)
     => last'.resp = last.resp]_vars

(* C18: when every record is the owner's, at the conditions of the query   *)
(* and rated too cold (below 50), PredictHeatingTime answers with more     *)
(* than the heating time of the most recent record.                        *)
PersistentColdRaises ==
  (/\ last # None
   /\ version = "v1"
   /\ Seen # <<>>
   /\ AllAtConditions
   /\ ColdSeen = 1..last.n)
    => last.resp > Seen[last.n].HeatingTime

(***************************************************************************)
(* ------------------------- The implied target -------------------------- *)
(***************************************************************************)

(* C19: the adjustment that turns the heating time h of a record into its  *)
(* target is at most a quarter of h in magnitude, for every satisfaction,  *)
(* on the cold side and on the hot side.                                   *)
RelativeAdjustmentCap ==
  last # None
    => 4 * Abs(last.resp - last.req.HeatingTime * Centi)
         <= last.req.HeatingTime * Centi

(* C20: the implied target of a record with heating time h > 0 equals h    *)
(* when the satisfaction is within 1 of 50, exceeds h when it is below     *)
(* that deadband and is less than h when it is above.                      *)
TargetDirection ==
  last # None /\ last.req.HeatingTime > 0
    => LET h == last.req.HeatingTime * Centi
           s == last.req.Satisfaction
       IN /\ Abs(s - 50) <= 1 => last.resp = h
          /\ s < 50 - 1 => last.resp > h
          /\ s > 50 + 1 => last.resp < h

SlightlyHotTarget ==
  /\ last # None
  /\ last.req.Satisfaction = 52
  /\ last.req.HeatingTime = 7
  /\ last.resp < 7 * Centi
  /\ last.n = MaxTargetRecs

(***************************************************************************)
(* ------------------------- Clamps and rounding of v2 ------------------- *)
(***************************************************************************)

(* The owner's latest record under conditions similar to the answered      *)
(* query, as step 7 of Predict finds it, or None                           *)
LatestSimilar ==
  latestSimilarUserRecord(
    GetRecordsForPredictionByUser(Seen, last.req.UserID, UserLimitV2),
    last.req, SigmaDuration * 2, SigmaTemp * 2)

(* C21: when the owner has a record under similar conditions, the heating  *)
(* time returned by Predict, after the absolute clamp and the rounding,    *)
(* is within StepCapFraction of the heating time of the latest such record.*)
StepClampOnReturned ==
  (last # None /\ version # "v1" /\ LatestSimilar # None)
    => /\ last.resp * Centi
            >= LatestSimilar.HeatingTime * (Centi - StepCapFractionCenti)
       /\ last.resp * Centi
            <= LatestSimilar.HeatingTime * (Centi + StepCapFractionCenti)

(* The records Predict of v2 fetched for the answered query *)
UserRecordsV2 == GetRecordsForPredictionByUser(Seen, last.req.UserID, UserLimitV2)

GlobalRecordsV2 == GetGlobalRecordsForPrediction(Seen, last.req.UserID, GlobalLimitV2)

(* The estimate before rounding, in hundredths, on either path of Predict *)
Unrounded ==
  IF Len(UserRecordsV2) + Len(GlobalRecordsV2) = 0
  THEN clamp(DefaultMinutesV2 * Centi, MinMinutes * Centi, MaxMinutes * Centi)
  ELSE estimateV2(last.req, last.at, UserRecordsV2, GlobalRecordsV2)

(* The owner's latest feedback was too hot and the estimate is at most a   *)
(* quarter of a minute above a whole minute                                *)
HotAndClose ==
  /\ lastUserFeedback(UserRecordsV2) # None
  /\ lastUserFeedback(UserRecordsV2).sat > 50
  /\ (Unrounded - Floor(Unrounded) * Centi) * 4 <= Centi

(* C22: Predict honours the configured rounding policy on every path: with *)
(* NeverCold the response is not below the estimate, unless the owner's    *)
(* latest feedback was too hot and the fraction is small; without it the   *)
(* response is the estimate rounded to the nearest minute.                 *)
RoundingPolicy ==
  (last # None /\ version # "v1")
    => IF NeverCold
       THEN last.resp * Centi >= Unrounded \/ HotAndClose
       ELSE last.resp = Round(Unrounded)

(***************************************************************************)
(* ------------------------- The pattern guard of v1 --------------------- *)
(***************************************************************************)

(* The four most recent of the records a response was computed from *)
Newest4 == SubSeq(Seen, last.n - 3, last.n)

MeanHeatingTime4 == (SumHeatingTimes(Newest4) * Centi) // 4

MeanSatisfaction4 == (sumSatisfaction(Newest4) * Centi) // 4

(* Every one of the four is within two minutes of their mean, so that the  *)
(* variance is below 4                                                     *)
Clustered4 ==
  \A i \in 1..4 : Abs(Newest4[i].HeatingTime * Centi - MeanHeatingTime4) < 2 * Centi

(* C23: when the four most recent records have clustered heating times and *)
(* at least three of them are rated too hot, PredictHeatingTime answers    *)
(* with a decrease from their mean heating time: 25% when the mean         *)
(* satisfaction is above 70, 15% when it is above 55.                      *)
HotPatternGuard ==
  (/\ last # None
   /\ version = "v1"
   /\ last.n >= 4
   /\ AllAtConditions
   /\ Clustered4
   /\ Cardinality({i \in 1..4 : Newest4[i].Satisfaction > 50}) >= 3
   /\ MeanSatisfaction4 > 55 * Centi)
    => last.resp = Round(IF MeanSatisfaction4 > 70 * Centi
                         THEN (MeanHeatingTime4 * 75) // Centi
                         ELSE (MeanHeatingTime4 * 85) // Centi)

(* The records of recs that getRecentRecords(recs, count) leaves out *)
Older(recs, count) == SubSeq(recs, 1, Len(recs) - Len(getRecentRecords(recs, count)))

(* No record left out of the window is more recent than one in it *)
MostRecent(recs, count) ==
  \A i \in 1..Len(getRecentRecords(recs, count)), j \in 1..Len(Older(recs, count)) :
    ~After(Older(recs, count)[j], getRecentRecords(recs, count)[i])

(* C24: of the owner's records as the store delivers them, newest first,   *)
(* the window isStuckInPattern and handleStuckPattern examine (4 records)  *)
(* and the window of calculateContextualBoost (3 records) hold the most    *)
(* recent records by date.                                                 *)
NewestWindow ==
  (last # None /\ version = "v1")
    => /\ MostRecent(OwnRecords(last), 4)
       /\ MostRecent(OwnRecords(last), 3)

(* The strategic jump for the owner's records of the answered query *)
StrategicJump == handleStuckPattern(OwnRecords(last))

(* C25: when a stuck pattern is detected in the owner's records, the       *)
(* response of PredictHeatingTime is the strategic jump from the recent    *)
(* mean heating time, bounded or not and rounded, and not a blend of it    *)
(* with the estimate from the global pool.                                 *)
StuckShortCircuit ==
  (/\ last # None
   /\ version = "v1"
   /\ findSimilarRecords(last.req, last.at, OwnRecords(last)) # <<>>
   /\ isStuckInPattern(OwnRecords(last)))
    => \/ last.resp = Round(StrategicJump)
       \/ last.resp = Round(clamp(StrategicJump, 5 * Centi, 120 * Centi))

(***************************************************************************)
(* ------------------------- Decay of a perfect record ------------------- *)
(***************************************************************************)

(* The records after the perfect record l.req, among the first l.n of st,  *)
(* that used its heating time again, within 0.2 minutes                    *)
Attempts(st, l) ==
  {i \in 1..l.n : /\ After(st[i], l.req)
                  /\ 10 * Abs(st[i].HeatingTime - l.req.HeatingTime) <= 2}

RECURSIVE SumSatisfactionOver(_, _)
SumSatisfactionOver(st, is) ==
  IF is = {} THEN 0
  ELSE LET i == CHOOSE x \in is : TRUE
       IN st[i].Satisfaction + SumSatisfactionOver(st, is \ {i})

(* Two attempts or more, with a mean satisfaction below 50 *)
Contradicted(st, l) ==
  /\ Cardinality(Attempts(st, l)) >= 2
  /\ SumSatisfactionOver(st, Attempts(st, l)) < 50 * Cardinality(Attempts(st, l))

(* C26: calculatePerfectScoreDecay returns a factor in [0.1, 1.0]; it is   *)
(* 1.0 unless two or more later records used the heating time of the       *)
(* perfect record again with a mean satisfaction below 50; and of two      *)
(* decays, the one with no fewer attempts and no higher mean satisfaction  *)
(* is not the larger.                                                      *)
BoundedConditionalDecay ==
  [][last' # None =>
       /\ Milli \div 10 <= last'.resp /\ last'.resp <= Milli
       /\ ~Contradicted(store', last') => last'.resp = Milli
       /\ (/\ last # None
           /\ Contradicted(store, last)
           /\ Contradicted(store', last')
           /\ Cardinality(Attempts(store', last')) >= Cardinality(Attempts(store, last))
           /\ SumSatisfactionOver(store', Attempts(store', last'))
                * Cardinality(Attempts(store, last))
              <= SumSatisfactionOver(store, Attempts(store, last))
                   * Cardinality(Attempts(store', last')))
          => last'.resp <= last.resp]_vars

DecayedAboveFloor ==
  /\ last # None
  /\ Contradicted(store, last)
  /\ Cardinality(Attempts(store, last)) = 3
  /\ last.resp > Milli \div 10
  /\ last.resp < Milli

(***************************************************************************)
(* ------------------------- The anchor blend of v1 ---------------------- *)
(***************************************************************************)

(* The owner's records among the first l.n of st, as v1 fetches them *)
Own(st, l) ==
  GetRecordsForPredictionByUser(SubSeq(st, 1, l.n), l.req.UserID, UserLimitV1)

SuccessAnchors(st, l) == findWeightedSuccessAnchors(Own(st, l), l.at)

(* The coefficient applySuccessAnchorLogic gives to the anchors, in 1/Milli *)
AnchorInfluence(st, l) == Min(7 * Centi, sumAnchorWeights(SuccessAnchors(st, l)))

(* The estimate from the anchors alone, in hundredths *)
AnchorEstimate(st, l) ==
  sumAnchorTimes(SuccessAnchors(st, l)) // sumAnchorWeights(SuccessAnchors(st, l))

(* The overall weighted estimate of calculatePrediction, in hundredths *)
OverallEstimate(st, l) ==
  LET sims == findSimilarRecords(l.req, l.at, Own(st, l))
  IN sumTargetV1(sims, 1, Own(st, l), Len(Own(st, l)), TRUE)
       // sumTargetV1(sims, 1, Own(st, l), Len(Own(st, l)), FALSE)

(* calculatePrediction reached the blend with the anchors *)
Blends(st, l) ==
  /\ l # None
  /\ findSimilarRecords(l.req, l.at, Own(st, l)) # <<>>
  /\ ~isStuckInPattern(Own(st, l))
  /\ sumTargetV1(findSimilarRecords(l.req, l.at, Own(st, l)), 1, Own(st, l),
                 Len(Own(st, l)), FALSE) > 0
  /\ SuccessAnchors(st, l) # <<>>
  /\ sumAnchorWeights(SuccessAnchors(st, l)) > 0

(* Every record the estimate was computed from is an anchor, so that the   *)
(* anchors hold the whole of the weight                                    *)
AllAnchors(st, l) ==
  /\ \A i \in 1..l.n : AtConditions(st[i], l.req)
  /\ Len(SuccessAnchors(st, l)) = Len(Own(st, l))

(* C27: the coefficient the anchor-only estimate gets in the blend lies in *)
(* [0, 0.7], the blended estimate lies between the overall estimate and    *)
(* the anchor-only one, and the coefficient follows the anchors' share of  *)
(* the total weight: two blends in which the anchors hold all the weight   *)
(* have the same coefficient.                                              *)
AnchorBlendConvex ==
  [][(version = "v1" /\ Blends(store', last'))
     => /\ 0 <= AnchorInfluence(store', last')
        /\ AnchorInfluence(store', last') <= 7 * Centi
        /\ applySuccessAnchorLogic(OverallEstimate(store', last'),
                                   SuccessAnchors(store', last'))
             >= Min(OverallEstimate(store', last'), AnchorEstimate(store', last'))
        /\ applySuccessAnchorLogic(OverallEstimate(store', last'),
                                   SuccessAnchors(store', last'))
             <= Max(OverallEstimate(store', last'), AnchorEstimate(store', last'))
        /\ (Blends(store, last) /\ AllAnchors(store, last)
              /\ AllAnchors(store', last'))
           => AnchorInfluence(store', last') = AnchorInfluence(store, last)]_vars

(* Two weighed records that differ in their satisfaction only, the second  *)
(* just outside the anchor band                                            *)
JustOutside(a, b) ==
  /\ a.anchor /\ ~b.anchor
  /\ Abs(b.rec.Satisfaction - 50) <= AnchorEpsilon + 1
  /\ a.isUser = b.isUser
  /\ a.rec.Date = b.rec.Date
  /\ a.rec.ShowerDuration = b.rec.ShowerDuration
  /\ a.rec.AverageTemperature = b.rec.AverageTemperature
  /\ a.rec.HeatingTime = b.rec.HeatingTime

(* C28: under the default configuration every record Predict weighs gets a *)
(* weight above zero, and a record in the anchor band weighs no less than  *)
(* the same record just outside the band.                                  *)
NoObservationDiscarded ==
  (last # None /\ version # "v1")
    => /\ \A i \in 1..Len(WeightsV2) : WeightsV2[i].weight > 0
       /\ \A i, j \in 1..Len(WeightsV2) :
            JustOutside(WeightsV2[i], WeightsV2[j])
              => WeightsV2[i].weight >= WeightsV2[j].weight

(***************************************************************************)
(* ------------------------- Configuration ------------------------------- *)
(***************************************************************************)

NumericFields == DOMAIN defaultCfg \ {"NeverCold"}

(* C29: of a configuration given to NewPredictionServiceV2, every field    *)
(* left at its zero value keeps its default, AnchorBlend and the rounding  *)
(* policy among them, and the fields that were set are taken over.         *)
PartialConfigKeepsDefaults ==
  (last # None /\ last.req # None)
    => /\ \A f \in NumericFields :
            last.resp[f] = IF last.req[f] = 0 THEN defaultCfg[f] ELSE last.req[f]
       /\ ~last.req.NeverCold => last.resp.NeverCold = defaultCfg.NeverCold

(* C30: a calculate request with a non-empty owner, a duration in [1,60]   *)
(* and a temperature in [-50,50], temperature exactly 0 included, passes    *)
(* validation and, the store answering, receives a prediction.              *)
InRangeQueryAccepted ==
  (/\ Calculated
   /\ reply.body.UserID # ""
   /\ ~OutOfRange(reply.body)
   /\ reply.failing = {})
    => /\ reply.status = 200
       /\ reply.invoked
       /\ reply.response # None

=============================================================================
